---- MODULE Spec2Model ----
(***************************************************************************)
(* Source-settings payloads of obws (src/requests/custom/                  *)
(* source_settings.rs): the typed settings structures, their Default       *)
(* implementations and their serialization to the key/value document that  *)
(* is sent as `sourceSettings`.                                            *)
(*                                                                         *)
(* A value is constructed (a literal, `T::default()`, or a struct update   *)
(* `T { f: x, ..T::default() }`), serialized with serde_json::to_value,    *)
(* and dropped.                                                            *)
(***************************************************************************)
EXTENDS Integers, Sequences, FiniteSets, TLC

VARIABLES phase, kind, value, touched, payload

vars == <<phase, kind, value, touched, payload>>

(***************************************************************************)
(* Bounds of the sampled input domains.                                    *)
(***************************************************************************)
\* crop rectangle offsets (f64) are sampled at the whole values 0..MaxCoord
MaxCoord == 2
\* durations are sampled with 0..MaxSecs whole seconds
MaxSecs == 1
\* window ids, display indices and track numbers are sampled in 0..MaxIndex
MaxIndex == 1

(***************************************************************************)
(* serde_json::Value: the serialized document.  An object is the sequence  *)
(* of its entries <<key, value>> in emission order.                        *)
(***************************************************************************)
JNum(n) == [t |-> "number", v |-> n]
JBool(b) == [t |-> "boolean", v |-> b]
JStr(s) == [t |-> "string", v |-> s]
JObj(m) == [t |-> "object", v |-> m]
JArr(a) == [t |-> "array", v |-> a]

\* SerializeStruct::serialize_field(key, value)
serialize_field(k, v) == << <<k, v>> >>

(***************************************************************************)
(* Text that the code formats is a sequence of characters.                 *)
(***************************************************************************)
DigitChars == <<"0", "1", "2", "3", "4", "5", "6", "7", "8", "9">>

\* Display for u32, as used by format!("{}", n)
RECURSIVE fmt_u32(_)
fmt_u32(n) ==
    IF n < 10 THEN <<DigitChars[n + 1]>>
    ELSE fmt_u32(n \div 10) \o <<DigitChars[(n % 10) + 1]>>

(***************************************************************************)
(* Encoders of crate::requests::ser (referenced by serialize_with).        *)
(***************************************************************************)
\* RGBA8::new(r, g, b, a)
RGBA8_new(r, g, b, a) == [r |-> r, g |-> g, b |-> b, a |-> a]

\* ser::rgba8_inverse: the four channel bytes in reverse order
rgba8_inverse(c) == JArr(<<JNum(c.a), JNum(c.b), JNum(c.g), JNum(c.r)>>)

\* chrono::Duration, kept as whole seconds plus microseconds below a second
Duration_seconds(s) == [secs |-> s, micros |-> 0]
Duration_milliseconds(ms) == [secs |-> ms \div 1000, micros |-> (ms % 1000) * 1000]

\* ser::duration_millis: Duration::num_milliseconds as an integer
duration_millis(d) == JNum(d.secs * 1000 + d.micros \div 1000)

\* crate::common::FontFlags: one bit per flag
FontFlagNames == {"BOLD", "ITALIC", "UNDERLINE", "STRIKEOUT"}
FontFlagBit(f) ==
    CASE f = "BOLD" -> 1
      [] f = "ITALIC" -> 2
      [] f = "UNDERLINE" -> 4
      [] f = "STRIKEOUT" -> 8

\* bitwise OR of two u8 values
RECURSIVE BitOr(_, _)
BitOr(x, y) ==
    IF x = 0 THEN y
    ELSE IF y = 0 THEN x
    ELSE (IF x % 2 = 1 \/ y % 2 = 1 THEN 1 ELSE 0) + 2 * BitOr(x \div 2, y \div 2)

\* FontFlags::bits of a flag set
RECURSIVE FontFlags_bits(_)
FontFlags_bits(S) ==
    IF S = {} THEN 0
    ELSE LET f == CHOOSE x \in S : TRUE
         IN  BitOr(FontFlagBit(f), FontFlags_bits(S \ {f}))

\* ser::bitflags_u8: the packed bits as a u8
bitflags_u8(S) == JNum(FontFlags_bits(S) % 256)


\* serde_json::to_string of an object whose values are unsigned integers
KeyChars(k) ==
    CASE k = "width" -> <<"w", "i", "d", "t", "h">>
      [] k = "height" -> <<"h", "e", "i", "g", "h", "t">>

RECURSIVE json_members(_)
json_members(m) ==
    IF m = <<>> THEN <<>>
    ELSE <<"\"">> \o KeyChars(m[1][1]) \o <<"\"", ":">> \o fmt_u32(m[1][2].v)
         \o (IF Len(m) > 1 THEN <<",">> ELSE <<>>)
         \o json_members(Tail(m))

serde_json_to_string(m) == <<"{">> \o json_members(m) \o <<"}">>

(***************************************************************************)
(* CoreaudioInputCapture, CoreaudioOutputCapture                           *)
(***************************************************************************)
SerCoreaudioInputCapture(v) == serialize_field("device_id", JStr(v.device_id))

SerCoreaudioOutputCapture(v) == serialize_field("device_id", JStr(v.device_id))

(***************************************************************************)
(* BrowserSource                                                           *)
(***************************************************************************)
\* BrowserSource_default with width and height exchanged
BrowserSource_default_swapped ==
    [ is_local_file |-> FALSE,
      local_file |-> "",
      url |-> "https://obsproject.com/browser-source",
      width |-> 600,
      height |-> 800,
      fps_custom |-> FALSE,
      fps |-> 30,
      reroute_audio |-> FALSE,
      css |-> "body { background-color: rgba(0, 0, 0, 0); margin: 0px auto; overflow: hidden; }",
      shutdown |-> FALSE,
      restart_when_active |-> FALSE ]

BrowserSource_default ==
    [ is_local_file |-> FALSE,
      local_file |-> "",
      url |-> "https://obsproject.com/browser-source",
      width |-> 800,
      height |-> 600,
      fps_custom |-> FALSE,
      fps |-> 30,
      reroute_audio |-> FALSE,
      css |-> "body { background-color: rgba(0, 0, 0, 0); margin: 0px auto; overflow: hidden; }",
      shutdown |-> FALSE,
      restart_when_active |-> FALSE ]

SerBrowserSource(v) ==
    serialize_field("is_local_file", JBool(v.is_local_file))
    \o serialize_field("local_file", JStr(v.local_file))
    \o serialize_field("url", JStr(v.url))
    \o serialize_field("width", JNum(v.width))
    \o serialize_field("height", JNum(v.height))
    \o serialize_field("fps_custom", JBool(v.fps_custom))
    \o serialize_field("fps", JNum(v.fps))
    \o serialize_field("reroute_audio", JBool(v.reroute_audio))
    \o serialize_field("css", JStr(v.css))
    \o serialize_field("shutdown", JBool(v.shutdown))
    \o serialize_field("restart_when_active", JBool(v.restart_when_active))

(***************************************************************************)
(* ColorSourceV3                                                           *)
(***************************************************************************)
ColorSourceV3_default ==
    [ color |-> RGBA8_new(209, 209, 209, 255), width |-> 0, height |-> 0 ]

\* SerColorSourceV3 without serialize_with: the channels in declared order
SerColorSourceV3_plain(v) ==
    serialize_field("color",
                    JArr(<<JNum(v.color.r), JNum(v.color.g), JNum(v.color.b), JNum(v.color.a)>>))
    \o serialize_field("width", JNum(v.width))
    \o serialize_field("height", JNum(v.height))

SerColorSourceV3(v) ==
    serialize_field("color", rgba8_inverse(v.color))
    \o serialize_field("width", JNum(v.width))
    \o serialize_field("height", JNum(v.height))

(***************************************************************************)
(* DisplayCapture and CropMode                                             *)
(***************************************************************************)
CropMode_None == [variant |-> "None"]

CropMode_Manual(l, t, r, b) ==
    [variant |-> "Manual", left |-> l, top |-> t, right |-> r, bottom |-> b]

CropMode_ToWindow(o, n, w, e) ==
    [variant |-> "ToWindow", owner_name |-> o, window_name |-> n, window |-> w,
     show_empty_names |-> e]

CropMode_ToWindowAndManual(o, n, w, e, l, t, r, b) ==
    [variant |-> "ToWindowAndManual", owner_name |-> o, window_name |-> n,
     window |-> w, show_empty_names |-> e,
     left |-> l, top |-> t, right |-> r, bottom |-> b]

\* SerCropMode with the rectangle emitted under the variant's own attribute
\* names instead of the protocol's keys
SerCropMode_unrenamed(c) ==
    CASE c.variant = "None" ->
           serialize_field("crop_mode", JNum(0))
      [] c.variant = "Manual" ->
           serialize_field("crop_mode", JNum(1))
           \o serialize_field("left", JNum(c.left))
           \o serialize_field("top", JNum(c.top))
           \o serialize_field("right", JNum(c.right))
           \o serialize_field("bottom", JNum(c.bottom))
      [] c.variant = "ToWindow" ->
           serialize_field("crop_mode", JNum(2))
           \o serialize_field("owner_name", JStr(c.owner_name))
           \o serialize_field("window_name", JStr(c.window_name))
           \o serialize_field("window", JNum(c.window))
           \o serialize_field("show_empty_names", JBool(c.show_empty_names))
      [] c.variant = "ToWindowAndManual" ->
           serialize_field("crop_mode", JNum(3))
           \o serialize_field("owner_name", JStr(c.owner_name))
           \o serialize_field("window_name", JStr(c.window_name))
           \o serialize_field("window", JNum(c.window))
           \o serialize_field("show_empty_names", JBool(c.show_empty_names))
           \o serialize_field("left", JNum(c.left))
           \o serialize_field("top", JNum(c.top))
           \o serialize_field("right", JNum(c.right))
           \o serialize_field("bottom", JNum(c.bottom))

\* impl Serialize for CropMode
SerCropMode(c) ==
    CASE c.variant = "None" ->
           serialize_field("crop_mode", JNum(0))
      [] c.variant = "Manual" ->
           serialize_field("crop_mode", JNum(1))
           \o serialize_field("manual.origin.x", JNum(c.left))
           \o serialize_field("manual.origin.y", JNum(c.top))
           \o serialize_field("manual.size.width", JNum(c.right))
           \o serialize_field("manual.size.height", JNum(c.bottom))
      [] c.variant = "ToWindow" ->
           serialize_field("crop_mode", JNum(2))
           \o serialize_field("owner_name", JStr(c.owner_name))
           \o serialize_field("window_name", JStr(c.window_name))
           \o serialize_field("window", JNum(c.window))
           \o serialize_field("show_empty_names", JBool(c.show_empty_names))
      [] c.variant = "ToWindowAndManual" ->
           serialize_field("crop_mode", JNum(3))
           \o serialize_field("owner_name", JStr(c.owner_name))
           \o serialize_field("window_name", JStr(c.window_name))
           \o serialize_field("window", JNum(c.window))
           \o serialize_field("show_empty_names", JBool(c.show_empty_names))
           \o serialize_field("window.origin.x", JNum(c.left))
           \o serialize_field("window.origin.y", JNum(c.top))
           \o serialize_field("window.size.width", JNum(c.right))
           \o serialize_field("window.size.height", JNum(c.bottom))

\* SerDisplayCapture without #[serde(flatten)]: crop_mode as a nested object
SerDisplayCapture_nested(v) ==
    serialize_field("display", JNum(v.display))
    \o serialize_field("show_cursor", JBool(v.show_cursor))
    \o serialize_field("crop_mode", JObj(SerCropMode(v.crop_mode)))

\* #[serde(flatten)] crop_mode: its entries join the enclosing map
SerDisplayCapture(v) ==
    serialize_field("display", JNum(v.display))
    \o serialize_field("show_cursor", JBool(v.show_cursor))
    \o SerCropMode(v.crop_mode)

(***************************************************************************)
(* ImageSource                                                             *)
(***************************************************************************)
ImageSource_default == [ file |-> "", unload |-> FALSE ]

SerImageSource(v) ==
    serialize_field("file", JStr(v.file))
    \o serialize_field("unload", JBool(v.unload))

(***************************************************************************)
(* Slideshow, SlideshowFile and their enumerations                         *)
(***************************************************************************)
\* #[serde(rename_all = "snake_case")] unit variants
SerPlaybackBehavior(b) ==
    CASE b = "AlwaysPlay" -> JStr("always_play")
      [] b = "StopRestart" -> JStr("stop_restart")
      [] b = "PauseUnpause" -> JStr("pause_unpause")

SerSlideMode(m) ==
    CASE m = "ModeAuto" -> JStr("mode_auto")
      [] m = "ModeManual" -> JStr("mode_manual")

SlideMode_default == "ModeAuto"

SerTransition(x) ==
    CASE x = "Cut" -> JStr("cut")
      [] x = "Fade" -> JStr("fade")
      [] x = "Swipe" -> JStr("swipe")
      [] x = "Slide" -> JStr("slide")

Transition_default == "Fade"

CustomSize_default == [variant |-> "Automatic"]

\* CustomSize_into_String with the ratio's separator used for CustomSize too
CustomSize_into_String_colon(s) ==
    CASE s.variant = "Automatic" -> <<"A", "u", "t", "o", "m", "a", "t", "i", "c">>
      [] s.variant = "SixteenToNine" -> <<"1", "6", ":", "9">>
      [] s.variant = "SixteenToTen" -> <<"1", "6", ":", "1", "0">>
      [] s.variant = "FourToThree" -> <<"4", ":", "3">>
      [] s.variant = "OneToOne" -> <<"1", ":", "1">>
      [] s.variant = "CustomRatio" -> fmt_u32(s.w) \o <<":">> \o fmt_u32(s.h)
      [] s.variant = "CustomSize" -> fmt_u32(s.w) \o <<":">> \o fmt_u32(s.h)

\* impl From<CustomSize> for String
CustomSize_into_String(s) ==
    CASE s.variant = "Automatic" -> <<"A", "u", "t", "o", "m", "a", "t", "i", "c">>
      [] s.variant = "SixteenToNine" -> <<"1", "6", ":", "9">>
      [] s.variant = "SixteenToTen" -> <<"1", "6", ":", "1", "0">>
      [] s.variant = "FourToThree" -> <<"4", ":", "3">>
      [] s.variant = "OneToOne" -> <<"1", ":", "1">>
      [] s.variant = "CustomRatio" -> fmt_u32(s.w) \o <<":">> \o fmt_u32(s.h)
      [] s.variant = "CustomSize" -> fmt_u32(s.w) \o <<"x">> \o fmt_u32(s.h)

\* #[serde(into = "String")]
SerCustomSize(s) == JStr(CustomSize_into_String(s))

SlideshowFile_default == [ value |-> "", hidden |-> FALSE, selected |-> FALSE ]

SerSlideshowFile(f) ==
    serialize_field("value", JStr(f.value))
    \o serialize_field("hidden", JBool(f.hidden))
    \o serialize_field("selected", JBool(f.selected))

SerSlideshowFiles(fs) == JArr([i \in DOMAIN fs |-> JObj(SerSlideshowFile(fs[i]))])

\* Slideshow_default with Duration::milliseconds(8) for Duration::seconds(8)
Slideshow_default_millis ==
    [ playback_behavior |-> "AlwaysPlay",
      slide_mode |-> SlideMode_default,
      transition |-> Transition_default,
      slide_time |-> Duration_milliseconds(8),
      transition_speed |-> Duration_milliseconds(700),
      loop_ |-> TRUE,
      hide |-> FALSE,
      randomize |-> FALSE,
      use_custom_size |-> CustomSize_default,
      files |-> <<>> ]

Slideshow_default ==
    [ playback_behavior |-> "AlwaysPlay",
      slide_mode |-> SlideMode_default,
      transition |-> Transition_default,
      slide_time |-> Duration_seconds(8),
      transition_speed |-> Duration_milliseconds(700),
      loop_ |-> TRUE,
      hide |-> FALSE,
      randomize |-> FALSE,
      use_custom_size |-> CustomSize_default,
      files |-> <<>> ]

\* SerSlideshow raising slide_time to its documented minimum of 50ms
SerSlideshow_clamped(v) ==
    serialize_field("playback_behavior", SerPlaybackBehavior(v.playback_behavior))
    \o serialize_field("slide_mode", SerSlideMode(v.slide_mode))
    \o serialize_field("transition", SerTransition(v.transition))
    \o serialize_field("slide_time",
                       IF duration_millis(v.slide_time).v < 50 THEN JNum(50)
                       ELSE duration_millis(v.slide_time))
    \o serialize_field("transition_speed", duration_millis(v.transition_speed))
    \o serialize_field("loop", JBool(v.loop_))
    \o serialize_field("hide", JBool(v.hide))
    \o serialize_field("randomize", JBool(v.randomize))
    \o serialize_field("use_custom_size", SerCustomSize(v.use_custom_size))
    \o serialize_field("files", SerSlideshowFiles(v.files))

SerSlideshow(v) ==
    serialize_field("playback_behavior", SerPlaybackBehavior(v.playback_behavior))
    \o serialize_field("slide_mode", SerSlideMode(v.slide_mode))
    \o serialize_field("transition", SerTransition(v.transition))
    \o serialize_field("slide_time", duration_millis(v.slide_time))
    \o serialize_field("transition_speed", duration_millis(v.transition_speed))
    \o serialize_field("loop", JBool(v.loop_))
    \o serialize_field("hide", JBool(v.hide))
    \o serialize_field("randomize", JBool(v.randomize))
    \o serialize_field("use_custom_size", SerCustomSize(v.use_custom_size))
    \o serialize_field("files", SerSlideshowFiles(v.files))


(***************************************************************************)
(* FfmpegSource                                                            *)
(***************************************************************************)
\* #[derive(Serialize_repr)] #[repr(u8)]
SerColorRange(r) ==
    CASE r = "Auto" -> JNum(0)
      [] r = "Partial" -> JNum(1)
      [] r = "Full" -> JNum(2)

SerFfmpegSource(v) ==
    serialize_field("is_local_file", JBool(v.is_local_file))
    \o serialize_field("local_file", JStr(v.local_file))
    \o serialize_field("looping", JBool(v.looping))
    \o serialize_field("buffering_mb", JNum(v.buffering_mb))
    \o serialize_field("input", JStr(v.input))
    \o serialize_field("input_format", JStr(v.input_format))
    \o serialize_field("reconnect_delay_sec", JNum(v.reconnect_delay_sec))
    \o serialize_field("restart_on_activate", JBool(v.restart_on_activate))
    \o serialize_field("clear_on_media_end", JBool(v.clear_on_media_end))
    \o serialize_field("close_when_inactive", JBool(v.close_when_inactive))
    \o serialize_field("speed_percent", JNum(v.speed_percent))
    \o serialize_field("color_range", SerColorRange(v.color_range))
    \o serialize_field("seekable", JBool(v.seekable))

(***************************************************************************)
(* TextFt2SourceV2 and Font                                                *)
(***************************************************************************)
Font_default ==
    [ face |-> "Helvetica", flags |-> {}, size |-> 256, style |-> "Regular" ]

\* SerFont emitting only whether any flag is set
SerFont_anyflag(f) ==
    serialize_field("face", JStr(f.face))
    \o serialize_field("flags", JNum(IF f.flags = {} THEN 0 ELSE 1))
    \o serialize_field("size", JNum(f.size))
    \o serialize_field("style", JStr(f.style))

SerFont(f) ==
    serialize_field("face", JStr(f.face))
    \o serialize_field("flags", bitflags_u8(f.flags))
    \o serialize_field("size", JNum(f.size))
    \o serialize_field("style", JStr(f.style))

TextFt2SourceV2_default ==
    [ antialiasing |-> TRUE,
      color1 |-> RGBA8_new(255, 255, 255, 255),
      color2 |-> RGBA8_new(255, 255, 255, 255),
      custom_width |-> 0,
      drop_shadow |-> FALSE,
      font |-> Font_default,
      from_file |-> FALSE,
      log_lines |-> 6,
      log_mode |-> FALSE,
      outline |-> FALSE,
      text |-> "",
      text_file |-> "",
      word_wrap |-> FALSE ]

SerTextFt2SourceV2(v) ==
    serialize_field("antialiasing", JBool(v.antialiasing))
    \o serialize_field("color1", rgba8_inverse(v.color1))
    \o serialize_field("color2", rgba8_inverse(v.color2))
    \o serialize_field("custom_width", JNum(v.custom_width))
    \o serialize_field("drop_shadow", JBool(v.drop_shadow))
    \o serialize_field("font", JObj(SerFont(v.font)))
    \o serialize_field("from_file", JBool(v.from_file))
    \o serialize_field("log_lines", JNum(v.log_lines))
    \o serialize_field("log_mode", JBool(v.log_mode))
    \o serialize_field("outline", JBool(v.outline))
    \o serialize_field("text", JStr(v.text))
    \o serialize_field("text_file", JStr(v.text_file))
    \o serialize_field("word_wrap", JBool(v.word_wrap))

(***************************************************************************)
(* VlcSource                                                               *)
(***************************************************************************)
VlcSource_default ==
    [ loop_ |-> TRUE,
      shuffle |-> FALSE,
      playback_behavior |-> "StopRestart",
      playlist |-> <<>>,
      network_caching |-> Duration_milliseconds(400),
      track |-> 1,
      subtitle_enable |-> FALSE,
      subtitle |-> 1 ]

SerVlcSource(v) ==
    serialize_field("bool", JBool(v.loop_))
    \o serialize_field("shuffle", JBool(v.shuffle))
    \o serialize_field("playback_behavior", SerPlaybackBehavior(v.playback_behavior))
    \o serialize_field("playlist", SerSlideshowFiles(v.playlist))
    \o serialize_field("network_caching", duration_millis(v.network_caching))
    \o serialize_field("track", JNum(v.track))
    \o serialize_field("subtitle_enable", JBool(v.subtitle_enable))
    \o serialize_field("subtitle", JNum(v.subtitle))

(***************************************************************************)
(* AvCaptureInput, FrameRate, Resolution                                   *)
(***************************************************************************)
\* #[derive(Serialize_repr)] #[repr(i8)]
SerColorSpace(c) ==
    CASE c = "Auto" -> JNum(-1)
      [] c = "Rec601" -> JNum(1)
      [] c = "Rec709" -> JNum(2)

SerVideoRange(r) ==
    CASE r = "Auto" -> JNum(-1)
      [] r = "Partial" -> JNum(1)
      [] r = "Full" -> JNum(2)

SerFrameRate(f) ==
    serialize_field("numerator", JNum(f.numerator))
    \o serialize_field("denominator", JNum(f.denominator))

\* SerResolution with the two values exchanged
SerResolution_swapped(r) ==
    serialize_field("width", JNum(r.height))
    \o serialize_field("height", JNum(r.width))

SerResolution(r) ==
    serialize_field("width", JNum(r.width))
    \o serialize_field("height", JNum(r.height))

\* ser::json_string: the value's own JSON text, emitted as a string
json_string(m) == JStr(serde_json_to_string(m))

SerAvCaptureInput(v) ==
    serialize_field("buffering", JBool(v.buffering))
    \o serialize_field("color_space", SerColorSpace(v.color_space))
    \o serialize_field("device", JStr(v.device))
    \o serialize_field("device_name", JStr(v.device_name))
    \o serialize_field("frame_rate", JObj(SerFrameRate(v.frame_rate)))
    \o serialize_field("input_format", JNum(v.input_format))
    \o serialize_field("resolution", json_string(SerResolution(v.resolution)))
    \o serialize_field("use_preset", JBool(v.use_preset))

(***************************************************************************)
(* WindowCapture                                                           *)
(***************************************************************************)
\* #[derive(Default)]
WindowCapture_default ==
    [ owner_name |-> "", window_name |-> "", window |-> 0,
      show_empty_names |-> FALSE, show_shadow |-> FALSE ]

SerWindowCapture(v) ==
    serialize_field("owner_name", JStr(v.owner_name))
    \o serialize_field("window_name", JStr(v.window_name))
    \o serialize_field("window", JNum(v.window))
    \o serialize_field("show_empty_names", JBool(v.show_empty_names))
    \o serialize_field("show_shadow", JBool(v.show_shadow))

(***************************************************************************)
(* The source-type identifiers and the Serialize implementation each       *)
(* selects.                                                                *)
(***************************************************************************)
SOURCE_COREAUDIO_INPUT_CAPTURE == "coreaudio_input_capture"
SOURCE_COREAUDIO_OUTPUT_CAPTURE == "coreaudio_output_capture"
SOURCE_BROWSER_SOURCE == "browser_source"
SOURCE_COLOR_SOURCE_V3 == "color_source_v3"
SOURCE_DISPLAY_CAPTURE == "display_capture"
SOURCE_IMAGE_SOURCE == "image_source"
SOURCE_SLIDESHOW == "slideshow"
SOURCE_FFMPEG_SOURCE == "ffmpeg_source"
SOURCE_TEXT_FT2_SOURCE_V2 == "text_ft2_source_v2"
SOURCE_VLC_SOURCE == "vlc_source"
SOURCE_AV_CAPTURE_INPUT == "av_capture_input"
SOURCE_WINDOW_CAPTURE == "window_capture"

SourceKinds ==
    { SOURCE_COREAUDIO_INPUT_CAPTURE, SOURCE_COREAUDIO_OUTPUT_CAPTURE,
      SOURCE_BROWSER_SOURCE, SOURCE_COLOR_SOURCE_V3, SOURCE_DISPLAY_CAPTURE,
      SOURCE_IMAGE_SOURCE, SOURCE_SLIDESHOW, SOURCE_FFMPEG_SOURCE,
      SOURCE_TEXT_FT2_SOURCE_V2, SOURCE_VLC_SOURCE, SOURCE_AV_CAPTURE_INPUT,
      SOURCE_WINDOW_CAPTURE }

\* serde_json::to_value(&settings)
to_value(k, v) ==
    CASE k = SOURCE_COREAUDIO_INPUT_CAPTURE -> SerCoreaudioInputCapture(v)
      [] k = SOURCE_COREAUDIO_OUTPUT_CAPTURE -> SerCoreaudioOutputCapture(v)
      [] k = SOURCE_BROWSER_SOURCE -> SerBrowserSource(v)
      [] k = SOURCE_COLOR_SOURCE_V3 -> SerColorSourceV3(v)
      [] k = SOURCE_DISPLAY_CAPTURE -> SerDisplayCapture(v)
      [] k = SOURCE_IMAGE_SOURCE -> SerImageSource(v)
      [] k = SOURCE_SLIDESHOW -> SerSlideshow(v)
      [] k = SOURCE_FFMPEG_SOURCE -> SerFfmpegSource(v)
      [] k = SOURCE_TEXT_FT2_SOURCE_V2 -> SerTextFt2SourceV2(v)
      [] k = SOURCE_VLC_SOURCE -> SerVlcSource(v)
      [] k = SOURCE_AV_CAPTURE_INPUT -> SerAvCaptureInput(v)
      [] k = SOURCE_WINDOW_CAPTURE -> SerWindowCapture(v)


(***************************************************************************)
(* Sampled input domains.                                                  *)
(***************************************************************************)
Coords == 0 .. MaxCoord
Indices == 0 .. MaxIndex
Names == {"", "OBS"}

Colors ==
    { RGBA8_new(209, 209, 209, 255), RGBA8_new(255, 255, 255, 255),
      RGBA8_new(255, 0, 0, 255), RGBA8_new(0, 0, 255, 255),
      RGBA8_new(1, 2, 3, 4), RGBA8_new(0, 0, 0, 0) }

MicroSamples == {0, 999, 49999, 50000, 99999, 100000}
Durations == { [secs |-> s, micros |-> m] : s \in 0 .. MaxSecs, m \in MicroSamples }

DimSamples == {0, 9, 16, 1920}
CustomSizes ==
    { [variant |-> p] :
        p \in {"Automatic", "SixteenToNine", "SixteenToTen", "FourToThree", "OneToOne"} }
    \cup { [variant |-> p, w |-> w, h |-> h] :
             p \in {"CustomRatio", "CustomSize"}, w \in DimSamples, h \in DimSamples }

ResolutionDims == {0, 7, 1080, 1920}
Resolutions == { [width |-> w, height |-> h] : w \in ResolutionDims, h \in ResolutionDims }

FileLists ==
    { <<>>, <<SlideshowFile_default>>,
      << [value |-> "a.png", hidden |-> FALSE, selected |-> TRUE] >> }

CropModes ==
    { CropMode_None }
    \cup { CropMode_Manual(l, t, r, b) : l \in Coords, t \in Coords, r \in Coords, b \in Coords }
    \cup { CropMode_ToWindow(o, n, w, e) :
             o \in Names, n \in Names, w \in Indices, e \in BOOLEAN }
    \cup { CropMode_ToWindowAndManual(o, "OBS", w, e, l, t, r, b) :
             o \in Names, w \in Indices, e \in BOOLEAN,
             l \in Coords, t \in Coords, r \in Coords, b \in Coords }

BrowserFieldSamples(f) ==
    CASE f \in {"is_local_file", "fps_custom", "reroute_audio", "shutdown",
                "restart_when_active"} -> BOOLEAN
      [] f = "local_file" -> {"", "index.html"}
      [] f = "url" -> {"https://example.com", "https://obsproject.com/browser-source"}
      [] f = "css" -> {"", "body { margin: 0px auto; }"}
      [] f \in {"width", "height", "fps"} -> {0, 30, 60, 600, 800, 1920}

(***************************************************************************)
(* Construction: struct literals, Default::default(), struct update.       *)
(* `touched` holds the fields the caller wrote; it is empty for an         *)
(* unmodified default instance.                                            *)
(***************************************************************************)
Construct(k, v, t) ==
    /\ phase' = "constructed"
    /\ kind' = k
    /\ value' = v
    /\ touched' = t
    /\ payload' = <<>>

NewCoreaudioInputCapture ==
    /\ phase = "idle"
    /\ \E d \in Names :
        Construct(SOURCE_COREAUDIO_INPUT_CAPTURE, [device_id |-> d], {"device_id"})

NewCoreaudioOutputCapture ==
    /\ phase = "idle"
    /\ \E d \in Names :
        Construct(SOURCE_COREAUDIO_OUTPUT_CAPTURE, [device_id |-> d], {"device_id"})

DefaultBrowserSource ==
    /\ phase = "idle"
    /\ Construct(SOURCE_BROWSER_SOURCE, BrowserSource_default, {})

UpdateBrowserSource ==
    /\ phase = "idle"
    /\ \E f \in DOMAIN BrowserSource_default :
        \E x \in BrowserFieldSamples(f) :
            Construct(SOURCE_BROWSER_SOURCE, [BrowserSource_default EXCEPT ![f] = x], {f})

DefaultColorSourceV3 ==
    /\ phase = "idle"
    /\ Construct(SOURCE_COLOR_SOURCE_V3, ColorSourceV3_default, {})

UpdateColorSourceV3 ==
    /\ phase = "idle"
    /\ \E c \in Colors, w \in Indices, h \in Indices :
        Construct(SOURCE_COLOR_SOURCE_V3,
                  [ColorSourceV3_default EXCEPT !.color = c, !.width = w, !.height = h],
                  {"color", "width", "height"})

NewDisplayCapture ==
    /\ phase = "idle"
    /\ \E d \in Indices, sc \in BOOLEAN, c \in CropModes :
        Construct(SOURCE_DISPLAY_CAPTURE,
                  [display |-> d, show_cursor |-> sc, crop_mode |-> c],
                  {"display", "show_cursor", "crop_mode"})

DefaultImageSource ==
    /\ phase = "idle"
    /\ Construct(SOURCE_IMAGE_SOURCE, ImageSource_default, {})

UpdateImageSource ==
    /\ phase = "idle"
    /\ \E f \in {"", "a.png"}, u \in BOOLEAN :
        Construct(SOURCE_IMAGE_SOURCE,
                  [ImageSource_default EXCEPT !.file = f, !.unload = u],
                  {"file", "unload"})

DefaultSlideshow ==
    /\ phase = "idle"
    /\ Construct(SOURCE_SLIDESHOW, Slideshow_default, {})

UpdateSlideshow ==
    /\ phase = "idle"
    /\ \E st \in Durations, ts \in Durations, cs \in CustomSizes, lp \in BOOLEAN :
        Construct(SOURCE_SLIDESHOW,
                  [Slideshow_default EXCEPT !.slide_time = st, !.transition_speed = ts,
                                            !.use_custom_size = cs, !.loop_ = lp],
                  {"slide_time", "transition_speed", "use_custom_size", "loop_"})

NewFfmpegSource ==
    /\ phase = "idle"
    /\ \E lf \in BOOLEAN, lp \in BOOLEAN, cr \in {"Auto", "Partial", "Full"} :
        Construct(SOURCE_FFMPEG_SOURCE,
                  [ is_local_file |-> lf, local_file |-> "a.mp4", looping |-> lp,
                    buffering_mb |-> 2, input |-> "", input_format |-> "",
                    reconnect_delay_sec |-> 10, restart_on_activate |-> FALSE,
                    clear_on_media_end |-> TRUE, close_when_inactive |-> FALSE,
                    speed_percent |-> 100, color_range |-> cr, seekable |-> FALSE ],
                  { "is_local_file", "local_file", "looping", "buffering_mb", "input",
                    "input_format", "reconnect_delay_sec", "restart_on_activate",
                    "clear_on_media_end", "close_when_inactive", "speed_percent",
                    "color_range", "seekable" })

DefaultTextFt2SourceV2 ==
    /\ phase = "idle"
    /\ Construct(SOURCE_TEXT_FT2_SOURCE_V2, TextFt2SourceV2_default, {})

\* examples/simple.rs: colors, text and a Font { flags, style, ..Font::default() }
UpdateTextFt2SourceV2 ==
    /\ phase = "idle"
    /\ \E c1 \in Colors, c2 \in Colors, fl \in SUBSET FontFlagNames :
        Construct(SOURCE_TEXT_FT2_SOURCE_V2,
                  [TextFt2SourceV2_default EXCEPT
                      !.color1 = c1, !.color2 = c2, !.text = "Hello world!",
                      !.font = [Font_default EXCEPT !.flags = fl, !.style = "Bold"]],
                  {"color1", "color2", "text", "font"})

DefaultVlcSource ==
    /\ phase = "idle"
    /\ Construct(SOURCE_VLC_SOURCE, VlcSource_default, {})

UpdateVlcSource ==
    /\ phase = "idle"
    /\ \E nc \in Durations, lp \in BOOLEAN, tr \in Indices, pl \in FileLists :
        Construct(SOURCE_VLC_SOURCE,
                  [VlcSource_default EXCEPT !.network_caching = nc, !.loop_ = lp,
                                            !.track = tr, !.playlist = pl],
                  {"network_caching", "loop_", "track", "playlist"})

NewAvCaptureInput ==
    /\ phase = "idle"
    /\ \E r \in Resolutions, up \in BOOLEAN, cs \in {"Auto", "Rec601", "Rec709"} :
        Construct(SOURCE_AV_CAPTURE_INPUT,
                  [ buffering |-> FALSE, color_space |-> cs, device |-> "0x1",
                    device_name |-> "FaceTime HD Camera",
                    frame_rate |-> [numerator |-> 30, denominator |-> 1],
                    input_format |-> 0, resolution |-> r, use_preset |-> up ],
                  { "buffering", "color_space", "device", "device_name", "frame_rate",
                    "input_format", "resolution", "use_preset" })

DefaultWindowCapture ==
    /\ phase = "idle"
    /\ Construct(SOURCE_WINDOW_CAPTURE, WindowCapture_default, {})

UpdateWindowCapture ==
    /\ phase = "idle"
    /\ \E o \in Names, w \in Indices, sh \in BOOLEAN :
        Construct(SOURCE_WINDOW_CAPTURE,
                  [WindowCapture_default EXCEPT !.owner_name = o, !.window = w,
                                                !.show_shadow = sh],
                  {"owner_name", "window", "show_shadow"})

(***************************************************************************)
(* Serialization and the end of the value's life.                          *)
(***************************************************************************)
Serialize ==
    /\ phase = "constructed"
    /\ phase' = "serialized"
    /\ payload' = to_value(kind, value)
    /\ UNCHANGED <<kind, value, touched>>

Drop ==
    /\ phase = "serialized"
    /\ phase' = "idle"
    /\ kind' = "none"
    /\ value' = <<>>
    /\ touched' = {}
    /\ payload' = <<>>

Init ==
    /\ phase = "idle"
    /\ kind = "none"
    /\ value = <<>>
    /\ touched = {}
    /\ payload = <<>>

Next ==
    \/ NewCoreaudioInputCapture
    \/ NewCoreaudioOutputCapture
    \/ DefaultBrowserSource
    \/ UpdateBrowserSource
    \/ DefaultColorSourceV3
    \/ UpdateColorSourceV3
    \/ NewDisplayCapture
    \/ DefaultImageSource
    \/ UpdateImageSource
    \/ DefaultSlideshow
    \/ UpdateSlideshow
    \/ NewFfmpegSource
    \/ DefaultTextFt2SourceV2
    \/ UpdateTextFt2SourceV2
    \/ DefaultVlcSource
    \/ UpdateVlcSource
    \/ NewAvCaptureInput
    \/ DefaultWindowCapture
    \/ UpdateWindowCapture
    \/ Serialize
    \/ Drop

Spec == Init /\ [][Next]_vars


(***************************************************************************)
(* Reading a serialized document.                                          *)
(***************************************************************************)
Keys(p) == { p[i][1] : i \in DOMAIN p }
HasKey(p, k) == \E i \in DOMAIN p : p[i][1] = k
Get(p, k) == p[CHOOSE i \in DOMAIN p : p[i][1] = k][2]
KeysDistinct(p) == \A i \in DOMAIN p : \A j \in DOMAIN p : p[i][1] = p[j][1] => i = j
IsNum(j, n) == j.t = "number" /\ j.v = n
IsBool(j, b) == j.t = "boolean" /\ j.v = b
IsStr(j, x) == j.t = "string" /\ j.v = x
Num(p, k, n) == HasKey(p, k) /\ IsNum(Get(p, k), n)
Bool(p, k, b) == HasKey(p, k) /\ IsBool(Get(p, k), b)
Str(p, k, x) == HasKey(p, k) /\ IsStr(Get(p, k), x)
Serialized(k) == phase = "serialized" /\ kind = k

(***************************************************************************)
(* C1, C2: CropMode inside DisplayCapture                                  *)
(***************************************************************************)
CropKeys == Keys(payload) \ {"display", "show_cursor"}

WindowKeys == {"owner_name", "window_name", "window", "show_empty_names"}

WindowFieldsCarried(c) ==
    /\ Str(payload, "owner_name", c.owner_name)
    /\ Str(payload, "window_name", c.window_name)
    /\ Num(payload, "window", c.window)
    /\ Bool(payload, "show_empty_names", c.show_empty_names)

RectCarried(c, x, y, w, h) ==
    /\ Num(payload, x, c.left)
    /\ Num(payload, y, c.top)
    /\ Num(payload, w, c.right)
    /\ Num(payload, h, c.bottom)

TagPresent ==
    /\ HasKey(payload, "crop_mode")
    /\ Get(payload, "crop_mode").t = "number"
    /\ Get(payload, "crop_mode").v \in 0 .. 3

\* The field table with the rectangle keys named ManualKeys / WindowRectKeys.
CropModeTable(ManualKeys, WindowRectKeys) ==
    LET c == value.crop_mode IN
    /\ TagPresent
    /\ KeysDistinct(payload)
    /\ c.variant = "None" =>
         /\ CropKeys = {"crop_mode"}
         /\ Num(payload, "crop_mode", 0)
    /\ c.variant = "Manual" =>
         /\ CropKeys = {"crop_mode"} \cup { ManualKeys[i] : i \in 1 .. 4 }
         /\ Num(payload, "crop_mode", 1)
         /\ RectCarried(c, ManualKeys[1], ManualKeys[2], ManualKeys[3], ManualKeys[4])
    /\ c.variant = "ToWindow" =>
         /\ CropKeys = {"crop_mode"} \cup WindowKeys
         /\ Num(payload, "crop_mode", 2)
         /\ WindowFieldsCarried(c)
    /\ c.variant = "ToWindowAndManual" =>
         /\ CropKeys = {"crop_mode"} \cup WindowKeys \cup { WindowRectKeys[i] : i \in 1 .. 4 }
         /\ Num(payload, "crop_mode", 3)
         /\ WindowFieldsCarried(c)
         /\ RectCarried(c, WindowRectKeys[1], WindowRectKeys[2], WindowRectKeys[3],
                        WindowRectKeys[4])

\* C1 as stated: every CropMode variant serializes to exactly the tag and
\* the fields of the table, the rectangle under manual-origin-x,
\* manual-origin-y, manual-size-width, manual-size-height (Manual) or
\* window-origin-x, window-origin-y, window-size-width, window-size-height
\* (ToWindowAndManual).
C1_TableWithHyphenNames ==
    Serialized(SOURCE_DISPLAY_CAPTURE) =>
        CropModeTable(
            <<"manual-origin-x", "manual-origin-y", "manual-size-width", "manual-size-height">>,
            <<"window-origin-x", "window-origin-y", "window-size-width", "window-size-height">>)

\* C1 amended: every CropMode variant serializes to exactly the tag (always
\* present, in 0..3) and the fields of its variant and no field of another
\* variant, the rectangle under the dotted keys manual.origin.x,
\* manual.origin.y, manual.size.width, manual.size.height (Manual) or
\* window.origin.x, window.origin.y, window.size.width, window.size.height
\* (ToWindowAndManual), carrying left, top, right, bottom in that order.
C1_TableWithDottedNames ==
    Serialized(SOURCE_DISPLAY_CAPTURE) =>
        CropModeTable(
            <<"manual.origin.x", "manual.origin.y", "manual.size.width", "manual.size.height">>,
            <<"window.origin.x", "window.origin.y", "window.size.width", "window.size.height">>)

\* a serialized ToWindowAndManual crop whose four offsets are not all equal
C1_Witness ==
    /\ Serialized(SOURCE_DISPLAY_CAPTURE)
    /\ value.crop_mode.variant = "ToWindowAndManual"
    /\ value.crop_mode.left = 0
    /\ value.crop_mode.top = 1
    /\ value.crop_mode.right = 2
    /\ value.crop_mode.bottom = 1

\* C2: a serialized DisplayCapture is one flat object: every value of a
\* crop-mode key is a scalar sibling of display and show_cursor (crop_mode
\* is a number, never a nested object), all keys are distinct, and display
\* and show_cursor hold the structure's own values.
C2_FlatSiblings ==
    Serialized(SOURCE_DISPLAY_CAPTURE) =>
        /\ KeysDistinct(payload)
        /\ \A i \in DOMAIN payload : payload[i][2].t \in {"number", "boolean", "string"}
        /\ Num(payload, "display", value.display)
        /\ Bool(payload, "show_cursor", value.show_cursor)
        /\ TagPresent
        /\ CropKeys \cap {"display", "show_cursor"} = {}
        /\ Len(payload) = 2 + Cardinality(CropKeys)

\* a serialized DisplayCapture cropped to a window, with more than the tag
C2_Witness ==
    /\ Serialized(SOURCE_DISPLAY_CAPTURE)
    /\ value.crop_mode.variant = "ToWindow"
    /\ value.display = 1
    /\ Len(payload) = 7


(***************************************************************************)
(* C3: colors                                                              *)
(***************************************************************************)
Reverse(q) == [i \in 1 .. Len(q) |-> q[Len(q) + 1 - i]]

Channels(c) == <<c.r, c.g, c.b, c.a>>

\* the bytes of an emitted color, in emission order
WireBytes(j) == [i \in DOMAIN j.v |-> j.v[i].v]

ColorReversed(p, k, c) ==
    /\ HasKey(p, k)
    /\ Get(p, k).t = "array"
    /\ Len(Get(p, k).v) = 4
    /\ \A i \in 1 .. 4 : Get(p, k).v[i].t = "number" /\ Get(p, k).v[i].v \in 0 .. 255
    /\ WireBytes(Get(p, k)) = Reverse(Channels(c))
    /\ Reverse(WireBytes(Get(p, k))) = Channels(c)

\* C3: every color-bearing field (ColorSourceV3.color, TextFt2SourceV2.color1
\* and color2) is always emitted, as the four channel bytes of the color in
\* reverse order, and reversing the emitted bytes again gives the color back.
C3_ColorInvolution ==
    /\ Serialized(SOURCE_COLOR_SOURCE_V3) => ColorReversed(payload, "color", value.color)
    /\ Serialized(SOURCE_TEXT_FT2_SOURCE_V2) =>
         /\ ColorReversed(payload, "color1", value.color1)
         /\ ColorReversed(payload, "color2", value.color2)

\* a serialized color source whose color is not a palindrome of channels
C3_Witness ==
    /\ Serialized(SOURCE_COLOR_SOURCE_V3)
    /\ value.color = RGBA8_new(1, 2, 3, 4)
    /\ WireBytes(Get(payload, "color")) = <<4, 3, 2, 1>>

(***************************************************************************)
(* C4: durations                                                           *)
(***************************************************************************)
TotalMicros(d) == d.secs * 1000000 + d.micros

\* ms is the whole-millisecond truncation of d
Truncates(ms, d) == ms * 1000 <= TotalMicros(d) /\ TotalMicros(d) < (ms + 1) * 1000

MillisOf(p, k) == Get(p, k).v

\* C4: every emitted duration is the whole-millisecond truncation of the
\* field's value, the emitted values are ordered as the durations are, and a
\* slide_time below 50ms or a network_caching below 100ms (0ms included) is
\* emitted as it is, not raised to the minimum.
C4_DurationMillis ==
    /\ Serialized(SOURCE_SLIDESHOW) =>
         /\ HasKey(payload, "slide_time") /\ Get(payload, "slide_time").t = "number"
         /\ HasKey(payload, "transition_speed")
         /\ Get(payload, "transition_speed").t = "number"
         /\ Truncates(MillisOf(payload, "slide_time"), value.slide_time)
         /\ Truncates(MillisOf(payload, "transition_speed"), value.transition_speed)
         /\ TotalMicros(value.slide_time) <= TotalMicros(value.transition_speed)
              => MillisOf(payload, "slide_time") <= MillisOf(payload, "transition_speed")
         /\ TotalMicros(value.transition_speed) <= TotalMicros(value.slide_time)
              => MillisOf(payload, "transition_speed") <= MillisOf(payload, "slide_time")
         /\ TotalMicros(value.slide_time) < 50000 => MillisOf(payload, "slide_time") < 50
         /\ TotalMicros(value.slide_time) = 0 => MillisOf(payload, "slide_time") = 0
    /\ Serialized(SOURCE_VLC_SOURCE) =>
         /\ HasKey(payload, "network_caching")
         /\ Get(payload, "network_caching").t = "number"
         /\ Truncates(MillisOf(payload, "network_caching"), value.network_caching)
         /\ TotalMicros(value.network_caching) < 100000
              => MillisOf(payload, "network_caching") < 100
         /\ TotalMicros(value.network_caching) = 0
              => MillisOf(payload, "network_caching") = 0

\* a serialized slideshow whose slide_time of 49.999ms is below the minimum
\* and is emitted as 49, next to a longer transition_speed
C4_Witness ==
    /\ Serialized(SOURCE_SLIDESHOW)
    /\ value.slide_time = [secs |-> 0, micros |-> 49999]
    /\ value.transition_speed = [secs |-> 1, micros |-> 999]
    /\ MillisOf(payload, "slide_time") = 49
    /\ MillisOf(payload, "transition_speed") = 1000

(***************************************************************************)
(* C5: font flags                                                          *)
(***************************************************************************)
RECURSIVE BitAnd(_, _)
BitAnd(x, y) ==
    IF x = 0 \/ y = 0 THEN 0
    ELSE (IF x % 2 = 1 /\ y % 2 = 1 THEN 1 ELSE 0) + 2 * BitAnd(x \div 2, y \div 2)

EmittedFlags == Get(Get(payload, "font").v, "flags")

\* C5: the emitted flags of a font are a u8; the empty set gives 0; for every
\* split of the flag set into two disjoint parts the emitted value is the
\* bitwise OR of the encodings of the parts; each flag owns a bit no other
\* flag has, set in the emitted value exactly when the flag is in the set.
C5_FlagsHomomorphism ==
    Serialized(SOURCE_TEXT_FT2_SOURCE_V2) =>
        LET S == value.font.flags IN
        /\ HasKey(payload, "font") /\ Get(payload, "font").t = "object"
        /\ HasKey(Get(payload, "font").v, "flags")
        /\ EmittedFlags.t = "number"
        /\ EmittedFlags.v \in 0 .. 255
        /\ S = {} => EmittedFlags.v = 0
        /\ \A S1 \in SUBSET S :
             EmittedFlags.v = BitOr(FontFlags_bits(S1), FontFlags_bits(S \ S1))
        /\ \A f \in FontFlagNames : \A g \in FontFlagNames :
             f # g => BitAnd(FontFlagBit(f), FontFlagBit(g)) = 0
        /\ \A f \in FontFlagNames :
             f \in S <=> BitAnd(EmittedFlags.v, FontFlagBit(f)) = FontFlagBit(f)

\* a serialized text source with bold and strikeout set
C5_Witness ==
    /\ Serialized(SOURCE_TEXT_FT2_SOURCE_V2)
    /\ value.font.flags = {"BOLD", "STRIKEOUT"}
    /\ EmittedFlags.v = 9


(***************************************************************************)
(* C6: CustomSize strings.  Text is read back independently of fmt_u32.    *)
(***************************************************************************)
IsDigit(c) == \E d \in 1 .. 10 : DigitChars[d] = c

DigitOf(c) == (CHOOSE d \in 1 .. 10 : DigitChars[d] = c) - 1

\* the number a non-empty run of decimal digits denotes, -1 for any other text
RECURSIVE DecVal(_)
DecVal(q) ==
    IF q = <<>> \/ \E i \in DOMAIN q : ~IsDigit(q[i]) THEN -1
    ELSE IF Len(q) = 1 THEN DigitOf(q[1])
    ELSE 10 * DecVal(SubSeq(q, 1, Len(q) - 1)) + DigitOf(q[Len(q)])

Count(q, c) == Cardinality({ i \in DOMAIN q : q[i] = c })

\* q is "{w}<sep>{h}" in decimal
IsPair(q, sep, w, h) ==
    /\ Count(q, sep) = 1
    /\ \E i \in DOMAIN q :
         /\ q[i] = sep
         /\ DecVal(SubSeq(q, 1, i - 1)) = w
         /\ DecVal(SubSeq(q, i + 1, Len(q))) = h

EmittedSize == Get(payload, "use_custom_size").v

\* C6: use_custom_size is emitted as a string: the presets as "Automatic",
\* "16:9", "16:10", "4:3", "1:1"; CustomRatio(w,h) as "{w}:{h}" and
\* CustomSize(w,h) as "{w}x{h}" in decimal; a CustomSize text holds no colon
\* and differs from the text of every preset and of every CustomRatio.
C6_CustomSizeText ==
    Serialized(SOURCE_SLIDESHOW) =>
        LET cs == value.use_custom_size IN
        /\ HasKey(payload, "use_custom_size")
        /\ Get(payload, "use_custom_size").t = "string"
        /\ cs.variant = "Automatic" =>
             EmittedSize = <<"A", "u", "t", "o", "m", "a", "t", "i", "c">>
        /\ cs.variant = "SixteenToNine" => EmittedSize = <<"1", "6", ":", "9">>
        /\ cs.variant = "SixteenToTen" => EmittedSize = <<"1", "6", ":", "1", "0">>
        /\ cs.variant = "FourToThree" => EmittedSize = <<"4", ":", "3">>
        /\ cs.variant = "OneToOne" => EmittedSize = <<"1", ":", "1">>
        /\ cs.variant = "CustomRatio" =>
             IsPair(EmittedSize, ":", cs.w, cs.h) /\ Count(EmittedSize, "x") = 0
        /\ cs.variant = "CustomSize" =>
             /\ IsPair(EmittedSize, "x", cs.w, cs.h)
             /\ Count(EmittedSize, ":") = 0
             /\ \A o \in CustomSizes :
                  o.variant # "CustomSize" => EmittedSize # CustomSize_into_String(o)

\* a serialized slideshow bounded to 1920x16
C6_Witness ==
    /\ Serialized(SOURCE_SLIDESHOW)
    /\ value.use_custom_size = [variant |-> "CustomSize", w |-> 1920, h |-> 16]
    /\ EmittedSize = <<"1", "9", "2", "0", "x", "1", "6">>

(***************************************************************************)
(* C7: BrowserSource defaults                                              *)
(***************************************************************************)
\* C7: a BrowserSource built from the default with only url set to
\* "https://example.com" has, and serializes, width 800, height 600, fps 30,
\* fps_custom false, shutdown false and the default of every other field;
\* whichever single field is overridden, every other field keeps its default.
C7_BrowserDefaults ==
    kind = SOURCE_BROWSER_SOURCE =>
        /\ (touched = {"url"} /\ value.url = "https://example.com") =>
             /\ value.width = 800 /\ value.height = 600 /\ value.fps = 30
             /\ value.fps_custom = FALSE /\ value.shutdown = FALSE
             /\ value.is_local_file = FALSE /\ value.local_file = ""
             /\ value.reroute_audio = FALSE /\ value.restart_when_active = FALSE
             /\ phase = "serialized" =>
                  /\ Str(payload, "url", "https://example.com")
                  /\ Num(payload, "width", 800)
                  /\ Num(payload, "height", 600)
                  /\ Num(payload, "fps", 30)
                  /\ Bool(payload, "fps_custom", FALSE)
                  /\ Bool(payload, "shutdown", FALSE)
                  /\ Bool(payload, "is_local_file", FALSE)
                  /\ Bool(payload, "reroute_audio", FALSE)
                  /\ Bool(payload, "restart_when_active", FALSE)
        /\ Cardinality(touched) <= 1
        /\ \A f \in DOMAIN value \ touched :
             /\ f = "width" => value[f] = 800
             /\ f = "height" => value[f] = 600
             /\ f = "fps" => value[f] = 30
             /\ f = "url" => value[f] = "https://obsproject.com/browser-source"
             /\ f \in {"is_local_file", "fps_custom", "reroute_audio", "shutdown",
                       "restart_when_active"} => value[f] = FALSE
             /\ f = "local_file" => value[f] = ""
             /\ f = "css" =>
                  value[f] = "body { background-color: rgba(0, 0, 0, 0); margin: 0px auto; overflow: hidden; }"

\* the default browser source with only url overridden, serialized
C7_Witness ==
    /\ Serialized(SOURCE_BROWSER_SOURCE)
    /\ touched = {"url"}
    /\ value.url = "https://example.com"
    /\ Num(payload, "width", 800)

(***************************************************************************)
(* C8: the embedded resolution                                             *)
(***************************************************************************)
\* the pieces of q between occurrences of sep
RECURSIVE Split(_, _)
Split(q, sep) ==
    IF Count(q, sep) = 0 THEN <<q>>
    ELSE LET i == CHOOSE j \in DOMAIN q : q[j] = sep /\ \A k \in 1 .. j - 1 : q[k] # sep
         IN  <<SubSeq(q, 1, i - 1)>> \o Split(SubSeq(q, i + 1, Len(q)), sep)

Quoted(q) == Len(q) >= 2 /\ q[1] = "\"" /\ q[Len(q)] = "\""

\* one `"key":number` member, as <<key text, number>>; <<>> if it is not one
ParseMember(q) ==
    LET kv == Split(q, ":") IN
    IF Len(kv) = 2 /\ Quoted(kv[1]) /\ DecVal(kv[2]) >= 0
    THEN <<SubSeq(kv[1], 2, Len(kv[1]) - 1), DecVal(kv[2])>>
    ELSE <<>>

\* a JSON object of unsigned integers, as the sequence of its members;
\* <<>> if the text is not one
ParseObject(q) ==
    IF Len(q) < 2 \/ q[1] # "{" \/ q[Len(q)] # "}" THEN <<>>
    ELSE LET ms == Split(SubSeq(q, 2, Len(q) - 1), ",") IN
         IF \E i \in DOMAIN ms : ParseMember(ms[i]) = <<>> THEN <<>>
         ELSE [i \in DOMAIN ms |-> ParseMember(ms[i])]

EmittedResolution == Get(payload, "resolution")

\* C8: resolution is emitted as a string, not an object; parsed as JSON the
\* string is an object with exactly the members width and height, holding
\* the structure's width and height.
C8_ResolutionRoundTrip ==
    Serialized(SOURCE_AV_CAPTURE_INPUT) =>
        /\ HasKey(payload, "resolution")
        /\ EmittedResolution.t = "string"
        /\ LET o == ParseObject(EmittedResolution.v) IN
           /\ Len(o) = 2
           /\ Keys(o) = { <<"w", "i", "d", "t", "h">>, <<"h", "e", "i", "g", "h", "t">> }
           /\ Get(o, <<"w", "i", "d", "t", "h">>) = value.resolution.width
           /\ Get(o, <<"h", "e", "i", "g", "h", "t">>) = value.resolution.height

\* a serialized capture input of 1920 by 1080
C8_Witness ==
    /\ Serialized(SOURCE_AV_CAPTURE_INPUT)
    /\ value.resolution = [width |-> 1920, height |-> 1080]
    /\ Len(EmittedResolution.v) = 28

(***************************************************************************)
(* C9: the loop flag                                                       *)
(***************************************************************************)
RustTypeKeywords ==
    { "bool", "char", "str", "u8", "u16", "u32", "u64", "u128", "usize",
      "i8", "i16", "i32", "i64", "i128", "isize", "f32", "f64" }

\* C9: Slideshow and VlcSource emit their loop flag under the key "loop",
\* and no payload has a key that is the name of a Rust type.
C9_LoopKey ==
    phase = "serialized" =>
        /\ kind \in {SOURCE_SLIDESHOW, SOURCE_VLC_SOURCE} => Bool(payload, "loop", value.loop_)
        /\ Keys(payload) \cap RustTypeKeywords = {}

(***************************************************************************)
(* C10: defaults and documented minimums                                   *)
(***************************************************************************)
\* C10: an unmodified default Slideshow has slide_time >= 50ms and
\* transition_speed >= 0ms, an unmodified default VlcSource has
\* network_caching >= 100ms, track >= 1 and subtitle >= 1, an unmodified
\* default TextFt2SourceV2 has log_lines >= 1, and the values serialized
\* from them are not below these minimums either.
C10_DefaultsMeetMinimums ==
    touched = {} =>
        /\ kind = SOURCE_SLIDESHOW =>
             /\ TotalMicros(value.slide_time) >= 50000
             /\ TotalMicros(value.transition_speed) >= 0
             /\ phase = "serialized" =>
                  /\ MillisOf(payload, "slide_time") >= 50
                  /\ MillisOf(payload, "transition_speed") >= 0
        /\ kind = SOURCE_VLC_SOURCE =>
             /\ TotalMicros(value.network_caching) >= 100000
             /\ value.track >= 1
             /\ value.subtitle >= 1
             /\ phase = "serialized" =>
                  /\ MillisOf(payload, "network_caching") >= 100
                  /\ Get(payload, "track").v >= 1
                  /\ Get(payload, "subtitle").v >= 1
        /\ kind = SOURCE_TEXT_FT2_SOURCE_V2 =>
             /\ value.log_lines >= 1
             /\ phase = "serialized" => Get(payload, "log_lines").v >= 1

\* the unmodified default VlcSource, serialized with its 400ms of caching
C10_Witness ==
    /\ Serialized(SOURCE_VLC_SOURCE)
    /\ touched = {}
    /\ MillisOf(payload, "network_caching") = 400

====
